---- MODULE Spec2Model ----
(***************************************************************************)
(* Model of the webcam monitor: get.py (the bulk importer) and update.py   *)
(* (the incremental merger), both working on the state file out.json.      *)
(*                                                                         *)
(* A JSON value of the remote API or of out.json is modelled by a record:  *)
(* a timestamp is [kind, n] where kind says what the JSON held (a number,  *)
(* a string of digits, a string int() rejects, or no such key) and n is    *)
(* the integer a number or a digit string denotes.  A stored entry of      *)
(* out.json is the pair <<timestamp, url>>.                                *)
(***************************************************************************)
EXTENDS Integers, Sequences, FiniteSets, TLC

\* ---- bounds of the model ------------------------------------------------
MaxTime == 3
MaxListing == 2

\* ---- update.py line 4 ---------------------------------------------------
numgrabbed == 2

Mergers == {"m1", "m2"}

\* ---- JSON values --------------------------------------------------------
Num(n) == [kind |-> "num", n |-> n]
Str(n) == [kind |-> "str", n |-> n]
BadStr == [kind |-> "bad", n |-> 0]
NoKey == [kind |-> "nokey", n |-> 0]

\* The values an "imageTimestamp" takes here: every time as a number, the
\* latest time also as a digit string, and one string that is no integer.
Timestamps == {Num(n) : n \in 1..MaxTime} \cup {Str(MaxTime), BadStr}
Urls == {"url"}
NoUrl == "nokey"

\* One element of the API's "images" array:
\* it has its two keys, or lacks "imageTimestamp", or is
\* the latest image lacking "imageUrl".
Images ==
    {[imageTimestamp |-> t, imageUrl |-> u] : t \in Timestamps \cup {NoKey}, u \in Urls}
        \cup {[imageTimestamp |-> Num(MaxTime), imageUrl |-> NoUrl]}

SeqUpTo(S, n) == UNION {[1..k -> S] : k \in 0..n}

\* Python's int(): defined on numbers and digit strings, ValueError otherwise.
IntOk(x) == x.kind \in {"num", "str"}
IntVal(x) == x.n

\* ---- the state file -----------------------------------------------------
RECURSIVE Digits(_)
Digits(n) == IF n < 10 THEN 1 ELSE 1 + Digits(n \div 10)

\* Characters json.dumps writes for a timestamp: a number's digits, a string
\* with its quotes (the string int() rejects stands for "n/a").
TsSize(x) == IF x.kind = "num" THEN Digits(x.n)
             ELSE IF x.kind = "str" THEN Digits(x.n) + 2
             ELSE 5

\* Characters of one entry, [ts, "url"], and of the document
\* {"list": [entry, entry, ...]}.
EntrySize(e) == TsSize(e[1]) + 9
RECURSIVE EntriesSize(_)
EntriesSize(l) == IF l = <<>> THEN 0 ELSE EntrySize(Head(l)) + 2 + EntriesSize(Tail(l))
DocSize(l) == IF l = <<>> THEN 12 ELSE 10 + EntriesSize(l)

\* out.json: missing; holding the complete document of a list; or holding
\* something json.load rejects (nothing at all after a truncating open, or a
\* document followed by the tail of a longer one).
Absent == [state |-> "absent", list |-> <<>>, size |-> 0]
Torn == [state |-> "torn", list |-> <<>>, size |-> 0]
Written(l) == [state |-> "ok", list |-> l, size |-> DocSize(l)]

\* A write of the document of l from offset 0 into file f, as the writer's
\* handle does it: characters beyond the document stay.
WriteAt(f, l) ==
    IF f.size > DocSize(l)
    THEN [state |-> "torn", list |-> <<>>, size |-> f.size]
    ELSE Written(l)

VARIABLES
    file,       \* out.json: absent, a complete document, or truncated/partial
    gpc,        \* get.py: where the importer is
    bigarr,     \* get.py: the list built from the listing
    pc,         \* update.py, per run: where the merger is
    newdata,    \* update.py: newdata["images"]
    olddata,    \* update.py: olddata["list"]
    i,          \* update.py: the loop index
    err,        \* the exception that ended the run ("" while none)
    printed,    \* update.py: number of "inserted new tiem" lines of the run
    start,      \* history: the list the run loaded
    toucher,    \* history: who opened or wrote out.json last
    again,      \* history: the run has the batch of the run before it and loaded its result
    raced,      \* history: some run loaded the file while another was active
    ondisk,     \* history: entries completed merger writes have put on disk
    maxHead     \* history: largest head timestamp a completed write persisted

vars == <<file, gpc, bigarr, pc, newdata, olddata, i, err, printed,
          start, toucher, again, raced, ondisk, maxHead>>

\* Before any run out.json is an input: it is not there, or it holds an
\* empty list (update.py line 13 is what meets it).  Nothing has run.
Init ==
    /\ file \in {Absent, Written(<<>>)}
    /\ gpc = "start"
    /\ bigarr = <<>>
    /\ pc = [p \in Mergers |-> "idle"]
    /\ newdata = [p \in Mergers |-> <<>>]
    /\ olddata = [p \in Mergers |-> <<>>]
    /\ i = [p \in Mergers |-> 0]
    /\ err = [p \in Mergers |-> ""]
    /\ printed = [p \in Mergers |-> 0]
    /\ start = [p \in Mergers |-> <<>>]
    /\ toucher = "none"
    /\ again = [p \in Mergers |-> FALSE]
    /\ raced = FALSE
    /\ ondisk = {}
    /\ maxHead = 0

\* ---- get.py -------------------------------------------------------------

\* Lines 6-9: print(data["images"][0]) needs a first image; every image needs
\* both keys.  "" when the listing passes.
ListingErr(images) ==
    IF images = <<>> THEN "IndexError"
    ELSE IF \E j \in 1..Len(images) :
                \/ images[j].imageTimestamp = NoKey
                \/ images[j].imageUrl = NoUrl
         THEN "KeyError"
         ELSE ""

\* Lines 7-9: [imageTimestamp, imageUrl] of every image, in the API's order.
Pairs(images) == [j \in 1..Len(images) |-> <<images[j].imageTimestamp, images[j].imageUrl>>]

\* What the full-listing endpoint may answer.
Listings == SeqUpTo(Images, MaxListing)

\* Lines 4-14: fetch the full listing (one of L) and build bigarr; a network failure or
\* a malformed listing (ListingErr) ends the run before the file is touched.
GetBuild(L) ==
    /\ gpc = "start"
    /\ \/ /\ gpc' = "crashed"
          /\ UNCHANGED bigarr
       \/ \E images \in L :
            /\ ListingErr(images) = ""
            /\ gpc' = "open"
            /\ bigarr' = Pairs(images)
    /\ UNCHANGED <<file, pc, newdata, olddata, i, err, printed, start,
                   toucher, again, raced, ondisk, maxHead>>

\* Line 15: open("out.json", "w") creates or truncates the file.
GetOpen ==
    /\ gpc = "open"
    /\ gpc' = "write"
    /\ file' = Torn
    /\ toucher' = "get"
    /\ UNCHANGED <<bigarr, pc, newdata, olddata, i, err, printed, start,
                   again, raced, ondisk, maxHead>>

\* Line 16 and the close of the with block: the whole document reaches the
\* file, or the write fails and leaves what the open left.
GetWrite ==
    /\ gpc = "write"
    /\ \/ gpc' = "done" /\ file' = WriteAt(file, bigarr) /\ toucher' = "get"
       \/ gpc' = "crashed" /\ UNCHANGED <<file, toucher>>
    /\ UNCHANGED <<bigarr, pc, newdata, olddata, i, err, printed, start,
                   again, raced, ondisk, maxHead>>

\* ---- update.py ----------------------------------------------------------

\* Mutant: a missing file is read as an empty list.
LoadErrLenient(f) == IF f.state = "torn" THEN "JSONDecodeError" ELSE ""

\* Lines 7-8: open("out.json") and json.load.
LoadErr(f) ==
    IF f.state = "absent" THEN "FileNotFoundError"
    ELSE IF f.state = "torn" THEN "JSONDecodeError"
    ELSE ""

\* Mutant: the comparison is made against the oldest stored entry.
RecentOfLast(list) == list[Len(list)][1]

\* Line 13: recent = olddata["list"][0][0].
Recent(list) == list[1][1]

\* Mutants: the comparison admits an equal timestamp; it is turned around.
IsNewerOrEqual(recent, newtime) == IntVal(recent) <= IntVal(newtime)
IsOlder(recent, newtime) == IntVal(recent) > IntVal(newtime)

\* Line 15: int(recent) < int(newtime).
IsNewer(recent, newtime) == IntVal(recent) < IntVal(newtime)

\* Mutants: the entry goes in behind the head; it overwrites the head.
InsertAfterHead(list, img) ==
    <<Head(list), <<img.imageTimestamp, img.imageUrl>>>> \o Tail(list)
InsertOverHead(list, img) == <<<<img.imageTimestamp, img.imageUrl>>>> \o Tail(list)

\* Line 17: olddata["list"].insert(0, [img["imageTimestamp"], img["imageUrl"]]).
Insert(list, img) == <<<<img.imageTimestamp, img.imageUrl>>>> \o list

\* Line 10: range(numgrabbed - 1, -1, -1).
FirstIndex == numgrabbed - 1
NextIndex(k) == k - 1
LoopEnds(k) == k = 0

\* Lines 11-17 of the iteration with index k (Python's, from 0), in the order
\* the statements run: the exception that ends it, or "".
StepErr(images, list, k) ==
    IF Len(images) < k + 1 THEN "IndexError"
    ELSE IF images[k + 1].imageTimestamp = NoKey THEN "KeyError"
    ELSE IF list = <<>> THEN "IndexError"
    ELSE IF ~IntOk(Recent(list)) \/ ~IntOk(images[k + 1].imageTimestamp) THEN "ValueError"
    ELSE IF /\ IsNewer(Recent(list), images[k + 1].imageTimestamp)
            /\ images[k + 1].imageUrl = NoUrl
         THEN "KeyError"
         ELSE ""

\* Mutant: every fetched image is inserted, without the comparison.
MergedAlways(images, list, k) == Insert(list, images[k + 1])

\* Lines 15-19: the list after an iteration that raised nothing.
Merged(images, list, k) ==
    IF IsNewer(Recent(list), images[k + 1].imageTimestamp)
    THEN Insert(list, images[k + 1])
    ELSE list

WellFormed(img) == img.imageTimestamp.kind = "num" /\ img.imageUrl # NoUrl
StepErrFree(b) == \A j \in 1..Len(b) : WellFormed(b[j])

\* Mutant: the notification is printed outside the if.
NotifiesAlways(images, list, k) == 1

\* Line 19: one "inserted new tiem" line, inside the if of line 15.
Notifies(images, list, k) ==
    IF IsNewer(Recent(list), images[k + 1].imageTimestamp) THEN 1 ELSE 0

\* What the "newestFirst/{numgrabbed}" endpoint may answer: up to numgrabbed
\* images, each well-formed or not.
Batches == SeqUpTo(Images, numgrabbed)

\* The process's previous run got into the loop: it completed, or an
\* iteration raised.
RanLoop(p) ==
    \/ pc[p] = "done"
    \/ pc[p] = "crashed" /\ err[p] \in {"IndexError", "KeyError", "ValueError"}

\* The answers a run of p may get: any of B; a run started right after the
\* process's previous one, when the remote data has not changed, gets that
\* run's batch once more.
Answers(p, B) ==
    IF pc[p] = "idle" THEN B
    ELSE IF RanLoop(p) THEN {newdata[p]} \cap B
    ELSE {}

\* Lines 5-8: fetch the batch (an answer, or a network failure), then load the
\* state file.  A run that ends here leaves nothing behind but its exception.
Begin(p, B) ==
    /\ pc[p] \in {"idle", "done", "crashed"}
    /\ printed' = [printed EXCEPT ![p] = 0]
    /\ \/ /\ pc' = [pc EXCEPT ![p] = "crashed"]
          /\ err' = [err EXCEPT ![p] = "URLError"]
          /\ UNCHANGED <<newdata, olddata, i, start, again, raced>>
       \/ /\ LoadErr(file) # ""
          /\ pc' = [pc EXCEPT ![p] = "crashed"]
          /\ err' = [err EXCEPT ![p] = LoadErr(file)]
          /\ UNCHANGED <<newdata, olddata, i, start, again, raced>>
       \/ \E images \in Answers(p, B) :
            /\ LoadErr(file) = ""
            /\ newdata' = [newdata EXCEPT ![p] = images]
            /\ pc' = [pc EXCEPT ![p] = "step"]
            /\ err' = [err EXCEPT ![p] = ""]
            /\ olddata' = [olddata EXCEPT ![p] = file.list]
            /\ start' = [start EXCEPT ![p] = file.list]
            /\ i' = [i EXCEPT ![p] = FirstIndex]
            /\ again' = [again EXCEPT ![p] = /\ RanLoop(p)
                                                /\ images = newdata[p]
                                                /\ file = Written(olddata[p])]
            /\ raced' = (raced \/ \E q \in Mergers \ {p} : pc[q] \in {"step", "write"})
    /\ UNCHANGED <<file, gpc, bigarr, toucher, ondisk, maxHead>>

\* The end of the script, or the unhandled exception: the process is gone,
\* and its memory with it.
Exit(p) ==
    /\ pc[p] \in {"done", "crashed"}
    /\ pc' = [pc EXCEPT ![p] = "idle"]
    /\ newdata' = [newdata EXCEPT ![p] = <<>>]
    /\ olddata' = [olddata EXCEPT ![p] = <<>>]
    /\ start' = [start EXCEPT ![p] = <<>>]
    /\ i' = [i EXCEPT ![p] = 0]
    /\ err' = [err EXCEPT ![p] = ""]
    /\ printed' = [printed EXCEPT ![p] = 0]
    /\ again' = [again EXCEPT ![p] = FALSE]
    /\ UNCHANGED <<file, gpc, bigarr, toucher, raced, ondisk, maxHead>>

\* Mutant: the file is opened for writing at the top of the iteration.
StepOpenFirst(p) ==
    /\ pc[p] = "step"
    /\ file' = Torn
    /\ toucher' = p
    /\ LET e == StepErr(newdata[p], olddata[p], i[p]) IN
       IF e = ""
       THEN /\ olddata' = [olddata EXCEPT ![p] = Merged(newdata[p], olddata[p], i[p])]
            /\ printed' = [printed EXCEPT ![p] = @ + Notifies(newdata[p], olddata[p], i[p])]
            /\ pc' = [pc EXCEPT ![p] = "write"]
            /\ UNCHANGED err
       ELSE /\ pc' = [pc EXCEPT ![p] = "crashed"]
            /\ err' = [err EXCEPT ![p] = e]
            /\ UNCHANGED <<olddata, printed>>
    /\ UNCHANGED <<gpc, bigarr, newdata, i, start, again,
                   raced, ondisk, maxHead>>

\* Lines 11-23: one iteration up to the open for writing, which truncates
\* the file.  An exception ends the run before the open.
Step(p) ==
    /\ pc[p] = "step"
    /\ LET e == StepErr(newdata[p], olddata[p], i[p]) IN
       IF e = ""
       THEN LET l == Merged(newdata[p], olddata[p], i[p]) IN
            /\ olddata' = [olddata EXCEPT ![p] = l]
            /\ printed' = [printed EXCEPT ![p] = @ + Notifies(newdata[p], olddata[p], i[p])]
            /\ pc' = [pc EXCEPT ![p] = "write"]
            /\ file' = Torn
            /\ toucher' = p
            /\ UNCHANGED err
       ELSE /\ pc' = [pc EXCEPT ![p] = "crashed"]
            /\ err' = [err EXCEPT ![p] = e]
            /\ UNCHANGED <<olddata, printed, file, toucher>>
    /\ UNCHANGED <<gpc, bigarr, newdata, i, start, again,
                   raced, ondisk, maxHead>>

Max(a, b) == IF a < b THEN b ELSE a
Range(s) == {s[j] : j \in 1..Len(s)}
\* The entries of the run's list that the list it loaded did not have.
Added(p) == Range(olddata[p]) \ Range(start[p])

\* Line 24 and the close of the with block: the document reaches the file and
\* the loop goes on, or the write fails and ends the run.
Write(p) ==
    /\ pc[p] = "write"
    /\ \/ /\ file' = WriteAt(file, olddata[p])
          /\ toucher' = p
          /\ pc' = [pc EXCEPT ![p] = IF LoopEnds(i[p]) THEN "done" ELSE "step"]
          /\ i' = [i EXCEPT ![p] = NextIndex(@)]
          /\ ondisk' = IF file'.state = "ok" THEN ondisk \cup Added(p) ELSE ondisk
          /\ maxHead' = IF file'.state = "ok"
                        THEN Max(maxHead, IntVal(Recent(olddata[p])))
                        ELSE maxHead
          /\ UNCHANGED err
       \/ /\ pc' = [pc EXCEPT ![p] = "crashed"]
          /\ err' = [err EXCEPT ![p] = "OSError"]
          /\ UNCHANGED <<file, toucher, i, ondisk, maxHead>>
    /\ UNCHANGED <<gpc, bigarr, newdata, olddata, printed, start,
                   again, raced>>

\* The importer, and merger runs one after another, as a scheduler that
\* serializes them invokes update.py.
Next ==
    \/ GetBuild(Listings)
    \/ GetOpen
    \/ GetWrite
    \/ Begin("m1", Batches)
    \/ Step("m1")
    \/ Write("m1")
    \/ Exit("m1")

Spec == Init /\ [][Next]_vars

\* Two invocations of update.py, at once or one after the other, on
\* well-formed batches and a well-formed listing of one image.
RaceBatches == {b \in Batches : Len(b) = numgrabbed /\ StepErrFree(b)}
RaceListings == {l \in Listings : Len(l) = 1 /\ StepErrFree(l)}

NextRace ==
    \/ GetBuild(RaceListings)
    \/ GetOpen
    \/ GetWrite
    \/ \E p \in Mergers : pc[p] = "idle" /\ Begin(p, RaceBatches)
    \/ \E p \in Mergers : Step(p)
    \/ \E p \in Mergers : Write(p)

SpecRace == Init /\ [][NextRace]_vars

\* ---- properties ---------------------------------------------------------

AllInt(list) == \A j \in 1..Len(list) : IntOk(list[j][1])
StrictDesc(list) ==
    /\ AllInt(list)
    /\ \A j \in 1..(Len(list) - 1) : IntVal(list[j][1]) > IntVal(list[j + 1][1])
IsSuffix(s, t) ==
    /\ Len(s) <= Len(t)
    /\ SubSeq(t, Len(t) - Len(s) + 1, Len(t)) = s
\* Every image of batch b has both keys and a timestamp int() accepts.
Sound(b) ==
    \A j \in 1..Len(b) : IntOk(b[j].imageTimestamp) /\ b[j].imageUrl # NoUrl

\* C1: when the list the importer persisted is non-empty and strictly
\* descending by timestamp, the persisted list is strictly descending by
\* timestamp (no two entries share one) after every write of every merger
\* run, whatever the batches were.
C1_OrderingInvariant ==
    (gpc = "done" /\ bigarr # <<>> /\ StrictDesc(bigarr) /\ file.state = "ok")
        => StrictDesc(file.list)

\* C1 witness: two completed merger runs have each put an entry in front of
\* a strictly descending imported list.
C1_Witness ==
    /\ gpc = "done" /\ bigarr # <<>> /\ StrictDesc(bigarr)
    /\ pc["m1"] = "done"
    /\ file.state = "ok" /\ Len(file.list) >= Len(bigarr) + 2
    /\ Len(start["m1"]) = Len(bigarr) + 1

\* Batch b is newest-first and all of it is newer than the head of list l.
AllNewer(b, l) ==
    /\ Len(b) = numgrabbed /\ Sound(b)
    /\ l # <<>> /\ IntOk(Recent(l))
    /\ \A j \in 1..(Len(b) - 1) :
           IntVal(b[j].imageTimestamp) > IntVal(b[j + 1].imageTimestamp)
    /\ IntVal(b[Len(b)].imageTimestamp) > IntVal(Recent(l))

\* C2: a completed run whose batch is newest-first with every timestamp above
\* the head of the list it loaded has inserted the whole batch: its list, and
\* the file its last write left, is the batch in the order received followed
\* by the loaded list.
C2_InsertionCorrectness ==
    \A p \in Mergers :
        (pc[p] = "done" /\ AllNewer(newdata[p], start[p]))
            => /\ olddata[p] = Pairs(newdata[p]) \o start[p]
               /\ printed[p] = numgrabbed
               /\ toucher = p => file = Written(Pairs(newdata[p]) \o start[p])

\* C2 witness: such a run has completed and its write is the file's content.
C2_Witness ==
    /\ pc["m1"] = "done" /\ toucher = "m1" /\ file.state = "ok"
    /\ AllNewer(newdata["m1"], start["m1"])
    /\ Len(file.list) = Len(start["m1"]) + numgrabbed

\* C3: a run that fetched the batch of the run before it, and loaded the
\* list that run left, inserts nothing, and when it completes the file holds
\* the list it loaded.
C3_Idempotence ==
    \A p \in Mergers :
        again[p]
            => /\ printed[p] = 0
               /\ olddata[p] = start[p]
               /\ pc[p] = "done" => file = Written(start[p])

\* C3 witness: the repeated run has completed, after a first run that had
\* inserted images.
C3_Witness ==
    /\ pc["m1"] = "done" /\ again["m1"]
    /\ Len(start["m1"]) > Len(bigarr)

\* No image of batch b is newer than the head of list l.
NoneNewer(b, l) ==
    /\ Len(b) = numgrabbed /\ Sound(b)
    /\ l # <<>> /\ IntOk(Recent(l))
    /\ \A j \in 1..Len(b) : IntVal(b[j].imageTimestamp) <= IntVal(Recent(l))

\* C4: an iteration inserts its image only when the image's timestamp is
\* strictly greater than the head of the list at that moment, and a completed
\* run none of whose images is newer than the head it loaded leaves its list
\* and the file equal to the list it loaded.
C4_StrictGreater ==
    [][/\ \A p \in Mergers :
              (pc[p] = "step" /\ olddata'[p] # olddata[p])
                  => IntVal(newdata[p][i[p] + 1].imageTimestamp) > IntVal(Recent(olddata[p]))
       /\ \A p \in Mergers :
              (pc'[p] = "done" /\ NoneNewer(newdata'[p], start'[p]))
                  => /\ olddata'[p] = start'[p]
                     /\ printed'[p] = 0
                     /\ toucher' = p => file' = Written(start'[p])]_vars

\* C4 witness: a completed run that fetched an image with the head's very
\* timestamp, and nothing newer, has left the file as it found it.
C4_Witness ==
    /\ pc["m1"] = "done" /\ toucher = "m1"
    /\ NoneNewer(newdata["m1"], start["m1"])
    /\ \E j \in 1..numgrabbed :
           /\ IntVal(newdata["m1"][j].imageTimestamp) = IntVal(Recent(start["m1"]))
           /\ newdata["m1"][j].imageTimestamp # Recent(start["m1"])
    /\ file = Written(start["m1"])

\* C5: whenever out.json holds a non-empty list of integer timestamps, its
\* first entry carries the largest timestamp of the list.
C5_HeadIsMax ==
    (file.state = "ok" /\ file.list # <<>> /\ AllInt(file.list))
        => \A j \in 1..Len(file.list) :
               IntVal(Recent(file.list)) >= IntVal(file.list[j][1])

\* C6: while out.json is missing, a run that starts ends at once in an
\* error: no merger gets into the loop, no list changes and no merger creates
\* the file.  An iteration of a run that loaded an empty list ends the run in
\* an error, inserts and prints nothing and leaves the file alone.
C6_MissingStateFatal ==
    [][/\ (file.state = "absent" /\ gpc' = gpc)
            => /\ file' = Absent
               /\ \A p \in Mergers :
                      /\ pc'[p] \in {"idle", "crashed"}
                      /\ pc'[p] = "crashed" => err'[p] \in {"URLError", "FileNotFoundError"}
                      /\ olddata'[p] = <<>> /\ printed'[p] = 0
       /\ \A p \in Mergers :
              (pc[p] = "step" /\ start[p] = <<>> /\ pc'[p] # pc[p])
                  => /\ pc'[p] = "crashed"
                     /\ err'[p] \in {"IndexError", "KeyError"}
                     /\ file' = file
                     /\ olddata'[p] = <<>> /\ printed'[p] = 0]_vars

\* C6 witness: a run that loaded an empty list, with a full and well-formed
\* batch, has ended in the IndexError of line 13, the file still empty.
C6_Witness ==
    /\ pc["m1"] = "crashed" /\ err["m1"] = "IndexError"
    /\ start["m1"] = <<>> /\ olddata["m1"] = <<>>
    /\ Len(newdata["m1"]) = numgrabbed /\ Sound(newdata["m1"])
    /\ file = Written(<<>>) /\ printed["m1"] = 0

\* Merger p ends its run in an exception in this step.
Crashes(p) == pc'[p] = "crashed" /\ (pc[p] # "crashed" \/ err'[p] # err[p])

\* C7 as stated: a run that opened the file for writing and then crashes, at
\* whatever point, leaves the file a complete document.
C7_NeverMidWrite ==
    [][\A p \in Mergers :
           (Crashes(p) /\ pc[p] \in {"step", "write"} /\ toucher = p)
               => file'.state = "ok"]_vars

\* C7 amended: a run that crashes in a write (between the open of line 23 and
\* the close) leaves the file truncated or partial; a run that crashes
\* anywhere else leaves the file untouched, and if the run was the last to
\* write it, the file holds the run's list: the loaded list with the images
\* accepted so far in front.
C7_CrashLeavesLastWrite ==
    [][\A p \in Mergers :
           Crashes(p)
               => IF pc[p] = "write"
                  THEN file'.state = "torn" /\ err'[p] = "OSError"
                  ELSE /\ file' = file
                       /\ olddata'[p] = olddata[p]
                       /\ (pc[p] = "step" /\ toucher = p)
                             => /\ file = Written(olddata[p])
                                /\ IsSuffix(start[p], olddata[p])
                                /\ Len(olddata[p]) = Len(start[p]) + printed[p]]_vars

\* C7 witness: the run inserted and wrote its first image and then crashed
\* on the missing "imageTimestamp" of the second one it processed.
C7_Witness ==
    /\ pc["m1"] = "crashed" /\ err["m1"] = "KeyError" /\ toucher = "m1"
    /\ i["m1"] = 0 /\ newdata["m1"][1].imageTimestamp = NoKey
    /\ Len(olddata["m1"]) = Len(start["m1"]) + 1
    /\ file = Written(olddata["m1"])

\* An entry some completed merger write put on disk is not in the file.
LostUpdate == file.state = "ok" /\ \E r \in ondisk : r \notin Range(file.list)

\* C8: the file holds the list of the run that wrote last, and an entry a
\* merger write put on disk is missing from the file only when two runs
\* overlapped: runs that do not overlap lose nothing.
C8_LostUpdateOnlyWhenRaced ==
    /\ (file.state = "ok" /\ toucher \in Mergers /\ pc[toucher] # "idle")
          => file.list = olddata[toucher]
    /\ LostUpdate => raced

\* C8 witness: both runs have completed and an entry one of them inserted and
\* wrote is absent from the final file.
C8_Witness ==
    /\ \A p \in Mergers : pc[p] = "done"
    /\ LostUpdate
    /\ \E p \in Mergers : \E r \in Added(p) : r \notin Range(file.list)

\* C9: a completed run's list ends with the list it loaded, is longer by
\* exactly the number of notifications printed, which is at most numgrabbed,
\* and is what its last write left in the file.
C9_Frame ==
    \A p \in Mergers :
        pc[p] = "done"
            => /\ IsSuffix(start[p], olddata[p])
               /\ Len(olddata[p]) = Len(start[p]) + printed[p]
               /\ printed[p] <= numgrabbed
               /\ toucher = p => file = Written(olddata[p])

\* C9 witness: a completed run accepted one image and skipped the other, on a
\* list of at least two entries.
C9_Witness ==
    /\ pc["m1"] = "done" /\ toucher = "m1"
    /\ printed["m1"] = 1 /\ Len(start["m1"]) >= 2
    /\ file = Written(olddata["m1"])

\* C10: with the runs serialized, a persisted head is never below a head
\* persisted before it, and an image is inserted only when its timestamp is
\* above every head persisted so far.
C10_MonotoneHead ==
    [][/\ (file'.state = "ok" /\ maxHead' > 0)
            => IntVal(Recent(file'.list)) >= maxHead'
       /\ \A p \in Mergers :
              (pc[p] = "step" /\ olddata'[p] # olddata[p])
                  => IntVal(newdata[p][i[p] + 1].imageTimestamp) > maxHead]_vars

\* C10 witness: a later run fetched an image older than the head a previous
\* run had persisted; the run has completed and the image is not in the list.
C10_Witness ==
    /\ pc["m1"] = "done" /\ file.state = "ok"
    /\ Len(start["m1"]) > Len(bigarr)
    /\ \E j \in 1..Len(newdata["m1"]) :
           /\ IntVal(newdata["m1"][j].imageTimestamp) < IntVal(Recent(start["m1"]))
           /\ \A k \in 1..Len(file.list) :
                  IntVal(file.list[k][1]) # IntVal(newdata["m1"][j].imageTimestamp)

====
